---- MODULE Spec2Model ----
(***************************************************************************)
(* WB2LASMI (migen/bus/wishbone2lasmi.py): a write-back, direct-mapped     *)
(* cache between a Wishbone master (front-end) and a LASMI port            *)
(* (back-end).  One step of the hardware specification is one clock cycle: *)
(* the state holds the registers and memories together with the inputs of  *)
(* the current cycle, so every combinational signal of the cycle is a      *)
(* state function.  A second specification runs the constructor's checks.  *)
(***************************************************************************)
EXTENDS Integers, Sequences, FiniteSets, TLC

----------------------------------------------------------------------------
(* Bounds of the model *)
MaxLat == 3        \* (read_latency, write_latency) is (1, MaxLat) or (MaxLat, 1)
MaxReq == 3        \* number of front-end requests presented in one run
MaxCfg == 4        \* constructor widths are 8, 16 .. 8 * MaxCfg bits, cachesize 0 .. 2 * MaxCfg

----------------------------------------------------------------------------
(* Configuration of the instance that is simulated (widths in bits) *)
data_width == 16   \* flen(self.wishbone.dat_r)
lasmim_dw  == 32   \* lasmim.dw
lasmim_aw  == 2    \* lasmim.aw
cachesize  == 4    \* in front-end words

RECURSIVE Log2Loop(_, _, _)
Log2Loop(l, r, n) == IF l < n THEN Log2Loop(2 * l, r + 1, n) ELSE <<l, r>>

\* log2_int(n, need_pow2=True): the exponent, or -1 for the ValueError
log2_int(n) ==
  LET lr == Log2Loop(1, 0, n) IN IF lr[1] # n THEN -1 ELSE lr[2]

offsetbits  == log2_int(lasmim_dw \div data_width)
addressbits == lasmim_aw + offsetbits
linebits    == log2_int(cachesize) - offsetbits
tagbits     == addressbits - linebits

WordBytes == data_width \div 8
LineBytes == lasmim_dw \div 8
Ratio     == lasmim_dw \div data_width

\* bytes are tokens: the data path moves bytes and never inspects them, so
\* every byte that enters the model is given a value of its own
Vals     == -(2^linebits * (lasmim_dw \div 8)) .. (100 + 2^lasmim_aw * (lasmim_dw \div 8))
Lines    == 0 .. (2^linebits - 1)
Tags     == 0 .. (2^tagbits - 1)
Offsets  == 0 .. (2^offsetbits - 1)
Adrs     == 0 .. (2^(offsetbits + linebits + tagbits) - 1)
LasmiAdrs == 0 .. (2^lasmim_aw - 1)
Word     == [0 .. WordBytes - 1 -> Vals]
Line     == [0 .. LineBytes - 1 -> Vals]
Sel      == [0 .. WordBytes - 1 -> BOOLEAN]

\* split(self.wishbone.adr, offsetbits, linebits, tagbits)
adr_offset(a) == a % (2^offsetbits)
adr_line(a)   == (a \div (2^offsetbits)) % (2^linebits)
adr_tag(a)    == (a \div (2^(offsetbits + linebits))) % (2^tagbits)

\* Cat(lo, hi) with lo of width w
Cat(lo, w, hi) == lo + (2^w) * hi

----------------------------------------------------------------------------
VARIABLES
  state,          \* FSM state
  dly,            \* position inside a delayed_enter chain
  data_mem,       \* data memory, one line per slot
  tag_mem,        \* tag memory, (tag, dirty) per slot
  port_adr_r,     \* registered address of the two memory ports
  adr_offset_r,   \* self.sync += adr_offset_r.eq(adr_offset)
  wb,             \* front-end inputs of this cycle: cyc, stb, we, sel, adr, dat_w
  lasmi,          \* back-end inputs of this cycle: req_ack, dat_ack
  bmem,           \* back-end memory, one line per LASMI address
  bk_adr,         \* address the back-end accepted with the last request
  read_latency,   \* lasmim.read_latency
  write_latency,  \* lasmim.write_latency
  master,         \* kind of Wishbone master: "bytes", "words" or "drops"
  reqs,           \* front-end requests presented so far
  trace,          \* FSM states visited for the request in progress
  miss_tag,       \* stored tag found by the last TEST_HIT that missed
  miss_dirty,     \* stored dirty bit found by the last TEST_HIT that missed
  shadow,         \* per slot: the line last refilled, acknowledged writes applied
  last_ack,       \* the front-end request acknowledged last
  since_ack,      \* cycles since the data-ack that left a WAIT_DATA_ACK state
  written,        \* slots with an acknowledged write since their last REFILL_WRTAG
  refilled,       \* slots that went through REFILL_DATA at least once
  cold,           \* slots that acknowledged a request before their first refill
  ref,            \* per front-end address: the word a flat memory would hold
  ctor            \* the constructor run (second specification)

hw == <<state, dly, data_mem, tag_mem, port_adr_r, adr_offset_r, wb, lasmi,
        bmem, bk_adr, read_latency, write_latency, master, reqs, trace,
        miss_tag, miss_dirty, shadow, last_ack, since_ack, written, refilled,
        cold, ref>>
vars == <<hw, ctor>>

----------------------------------------------------------------------------
(* Combinational signals of the current cycle *)

\* tag_do.raw_bits().eq(tag_port.dat_r)
tag_do == tag_mem[port_adr_r]

data_port_dat_r == data_mem[port_adr_r]

\* a tag match on a clean slot counted as a miss
hit_OnlyDirty == tag_do.tag = adr_tag(wb.adr) /\ tag_do.dirty

\* If(tag_do.tag == adr_tag, ...) in TEST_HIT
hit == tag_do.tag = adr_tag(wb.adr)

wishbone_ack == state = "TEST_HIT" /\ hit

\* tag_port_we with the tag entry rewritten by read hits too
tag_port_we_AnyHit ==
  \/ state = "TEST_HIT" /\ hit
  \/ state = "REFILL_WRTAG"

\* tag_port_we without the write of REFILL_WRTAG
tag_port_we_HitOnly == state = "TEST_HIT" /\ hit /\ wb.we

\* tag_port_we with the tag also written when TEST_HIT detects the miss
tag_port_we_AtMiss == state \in {"TEST_HIT", "REFILL_WRTAG"}

tag_port_we ==
  \/ state = "TEST_HIT" /\ hit /\ wb.we
  \/ state = "REFILL_WRTAG"

\* a write hit leaves the slot marked clean
tag_di_NeverDirty == [tag |-> adr_tag(wb.adr), dirty |-> FALSE]

\* the tag store keeps the tag it holds
tag_di_StoredTag ==
  [tag |-> tag_do.tag, dirty |-> state = "TEST_HIT" /\ hit /\ wb.we]

\* every tag write marks the slot dirty
tag_di_AlwaysDirty == [tag |-> adr_tag(wb.adr), dirty |-> TRUE]

tag_di == [tag   |-> adr_tag(wb.adr),
           dirty |-> state = "TEST_HIT" /\ hit /\ wb.we]

write_from_lasmi == state = "REFILL_DATA"

write_to_lasmi == state = "EVICT_DATA"

lasmim_stb == state \in {"EVICT_REQUEST", "REFILL_REQUEST"}

lasmim_we == state = "EVICT_REQUEST"

\* lasmim_adr built from the tag of the request instead of the stored tag
lasmim_adr_RequestTag ==
  Cat(adr_line(wb.adr), linebits, adr_tag(wb.adr)) % (2^lasmim_aw)

\* lasmim.adr.eq(Cat(adr_line, tag_do.tag)); lasmim.adr is lasmim.aw bits wide
lasmim_adr == Cat(adr_line(wb.adr), linebits, tag_do.tag) % (2^lasmim_aw)

\* the line the back-end returns for the request it accepted
lasmim_dat_r == bmem[bk_adr]

\* sub-word position (counted from the least significant end) of offset o,
\* as displacer and chooser place it with reverse=True
LanePos(o) == (Ratio - 1) - o

\* displacer(self.wishbone.sel, adr_offset, data_port.we, 2**offsetbits, reverse=True)
displacer(sel, o) ==
  [b \in 0 .. LineBytes - 1 |->
     (b \div WordBytes) = LanePos(o) /\ sel[b % WordBytes]]

\* chooser(data_port.dat_r, adr_offset_r, self.wishbone.dat_r, reverse=True)
chooser(line, o) ==
  [b \in 0 .. WordBytes - 1 |-> line[LanePos(o) * WordBytes + b]]

\* data_port_we with the byte selects applied to every sub-word of the line
data_port_we_AllLanes ==
  IF write_from_lasmi
    THEN [b \in 0 .. LineBytes - 1 |-> TRUE]
    ELSE IF wb.cyc /\ wb.stb /\ wb.we /\ wishbone_ack
           THEN [b \in 0 .. LineBytes - 1 |-> wb.sel[b % WordBytes]]
           ELSE [b \in 0 .. LineBytes - 1 |-> FALSE]

data_port_we ==
  IF write_from_lasmi
    THEN [b \in 0 .. LineBytes - 1 |-> TRUE]
    ELSE IF wb.cyc /\ wb.stb /\ wb.we /\ wishbone_ack
           THEN displacer(wb.sel, adr_offset(wb.adr))
           ELSE [b \in 0 .. LineBytes - 1 |-> FALSE]

\* data_port_dat_w with the front-end word not replicated over the line
data_port_dat_w_NoReplicate ==
  IF write_from_lasmi
    THEN lasmim_dat_r
    ELSE [b \in 0 .. LineBytes - 1 |->
            IF b < WordBytes THEN wb.dat_w[b] ELSE 0]

data_port_dat_w ==
  IF write_from_lasmi
    THEN lasmim_dat_r
    ELSE [b \in 0 .. LineBytes - 1 |-> wb.dat_w[b % WordBytes]]

ZeroLine == [b \in 0 .. LineBytes - 1 |-> 0]

lasmim_dat_w == IF write_to_lasmi THEN data_port_dat_r ELSE ZeroLine

lasmim_dat_we == [b \in 0 .. LineBytes - 1 |-> write_to_lasmi]

wishbone_dat_r == chooser(data_port_dat_r, adr_offset_r)

----------------------------------------------------------------------------
(* Environment: the Wishbone master and the LASMI controller *)

NoSel    == [b \in 0 .. WordBytes - 1 |-> FALSE]
ZeroWord == [b \in 0 .. WordBytes - 1 |-> 0]

NoReq == [cyc |-> FALSE, stb |-> FALSE, we |-> FALSE, sel |-> NoSel,
          adr |-> 0, dat_w |-> ZeroWord]

\* the addresses the master uses, as Cat(offset, line, tag): two offsets of
\* one line, the other slot, and tags 0..3 on slot 0 (tag 3 and tag 1 differ
\* only in the bit that lasmim.adr does not carry)
ReqAdrs == {1, 3, 4, 5, 12}

\* the word the k-th request carries: byte b has the value 10 * k + b
ReqData(k) == [b \in 0 .. WordBytes - 1 |-> 10 * k + b]

Reads == {[cyc |-> TRUE, stb |-> TRUE, we |-> FALSE, sel |-> NoSel,
           adr |-> a, dat_w |-> ZeroWord] : a \in ReqAdrs}

\* the masters "bytes" and "words" hold a request until it is acknowledged,
\* the master "drops" may take cyc and stb away while the request is served
stable == master # "drops"

\* the master "bytes" writes with every byte select, the others whole words
ReqSels == IF master = "bytes" THEN Sel ELSE {[b \in 0 .. WordBytes - 1 |-> TRUE]}

Writes(k) == {[cyc |-> TRUE, stb |-> TRUE, we |-> TRUE, sel |-> s,
               adr |-> a, dat_w |-> ReqData(k)] : s \in ReqSels, a \in ReqAdrs}

\* the master presents a request only when the next cycle is IDLE; it holds
\* the request until ack (a master that is not stable may drop cyc and stb)
FrontEnd(ns) ==
  IF ns = "IDLE"
    THEN \/ wb' = NoReq /\ reqs' = reqs
         \/ reqs < MaxReq /\ wb' \in Reads \cup Writes(reqs + 1) /\ reqs' = reqs + 1
    ELSE /\ reqs' = reqs
         /\ IF stable
              THEN wb' = wb
              ELSE \E c, s \in BOOLEAN : wb' = [wb EXCEPT !.cyc = c, !.stb = s]

\* request-ack answers a strobe, data-ack follows an accepted request
BackEnd(ns) ==
  \E ra \in (IF ns \in {"EVICT_REQUEST", "REFILL_REQUEST"} THEN BOOLEAN ELSE {FALSE}),
     da \in (IF ns \in {"EVICT_WAIT_DATA_ACK", "REFILL_WAIT_DATA_ACK"} THEN BOOLEAN ELSE {FALSE}) :
    lasmi' = [req_ack |-> ra, dat_ack |-> da]

\* the back-end latches the address with the accepted request and stores the
\* line driven in the write-data cycle under the byte enables
BackEndMem ==
  /\ bk_adr' = IF lasmim_stb /\ lasmi.req_ack THEN lasmim_adr ELSE bk_adr
  /\ bmem' = [bmem EXCEPT ![bk_adr] =
                [b \in 0 .. LineBytes - 1 |->
                   IF lasmim_dat_we[b] THEN lasmim_dat_w[b] ELSE @[b]]]

----------------------------------------------------------------------------
(* One clock edge *)

\* data_mem, write port with we_granularity=8 at data_port.adr = adr_line
DataMemWrite ==
  data_mem' = [data_mem EXCEPT ![adr_line(wb.adr)] =
                 [b \in 0 .. LineBytes - 1 |->
                    IF data_port_we[b] THEN data_port_dat_w[b] ELSE @[b]]]

\* tag_mem, write port at tag_port.adr = adr_line
TagMemWrite ==
  tag_mem' = IF tag_port_we
               THEN [tag_mem EXCEPT ![adr_line(wb.adr)] = tag_di]
               ELSE tag_mem

\* a front-end write as the data store is meant to take it
RefWrite(line, o, sel, dat) ==
  [b \in 0 .. LineBytes - 1 |->
     IF b \div WordBytes = (Ratio - 1) - o /\ sel[b % WordBytes]
       THEN dat[b % WordBytes] ELSE line[b]]

NoAck == [valid |-> FALSE, we |-> FALSE, sel |-> NoSel, adr |-> 0,
          dat_w |-> ZeroWord, path |-> <<>>]

History(ns, nd) ==
  /\ trace' = IF ns = "IDLE" THEN <<>>
              ELSE IF ns # state \/ nd # dly THEN Append(trace, ns)
              ELSE trace
  /\ miss_tag' = IF state = "TEST_HIT" /\ ~hit THEN tag_do.tag ELSE miss_tag
  /\ miss_dirty' = IF state = "TEST_HIT" /\ ~hit THEN tag_do.dirty ELSE miss_dirty
  /\ shadow' =
       IF write_from_lasmi
         THEN [shadow EXCEPT ![adr_line(wb.adr)] = lasmim_dat_r]
       ELSE IF wb.cyc /\ wb.stb /\ wb.we /\ wishbone_ack
         THEN [shadow EXCEPT ![adr_line(wb.adr)] =
                 RefWrite(@, adr_offset(wb.adr), wb.sel, wb.dat_w)]
       ELSE shadow
  /\ last_ack' =
       IF wb.cyc /\ wb.stb /\ wishbone_ack
         THEN [valid |-> TRUE, we |-> wb.we, sel |-> wb.sel, adr |-> wb.adr,
               dat_w |-> wb.dat_w, path |-> trace]
         ELSE last_ack
  /\ since_ack' =
       IF state \in {"EVICT_WAIT_DATA_ACK", "REFILL_WAIT_DATA_ACK"}
         THEN (IF lasmi.dat_ack THEN 1 ELSE 0)
       ELSE IF state \in {"EVICT_DATAD", "REFILL_DATAD"} THEN since_ack + 1
       ELSE 0
  /\ written' =
       IF wb.cyc /\ wb.stb /\ wb.we /\ wishbone_ack
         THEN written \cup {adr_line(wb.adr)}
       ELSE IF state = "REFILL_WRTAG" THEN written \ {adr_line(wb.adr)}
       ELSE written
  /\ refilled' = IF state = "REFILL_DATA"
                   THEN refilled \cup {adr_line(wb.adr)} ELSE refilled
  /\ cold' = IF wb.cyc /\ wb.stb /\ wishbone_ack /\ adr_line(wb.adr) \notin refilled
               THEN cold \cup {adr_line(wb.adr)} ELSE cold
  /\ ref' =
       IF wb.cyc /\ wb.stb /\ wb.we /\ wishbone_ack
         THEN [ref EXCEPT ![wb.adr] =
                 [i \in 0 .. WordBytes - 1 |->
                    IF wb.sel[i] THEN wb.dat_w[i] ELSE @[i]]]
         ELSE ref

Tick(ns, nd) ==
  /\ state' = ns
  /\ dly' = nd
  /\ DataMemWrite
  /\ TagMemWrite
  /\ port_adr_r' = adr_line(wb.adr)
  /\ adr_offset_r' = adr_offset(wb.adr)
  /\ BackEndMem
  /\ FrontEnd(ns)
  /\ BackEnd(ns)
  /\ History(ns, nd)
  /\ UNCHANGED <<read_latency, write_latency, master, ctor>>

\* fsm.delayed_enter(name, target, delay): an alias of the target when the
\* delay is 0, otherwise a chain of delay states in front of it
delayed_enter(name, target, delay) == IF delay = 0 THEN target ELSE name

DelayStep(name, target, delay) ==
  IF dly + 1 >= delay THEN Tick(target, 0) ELSE Tick(name, dly + 1)

----------------------------------------------------------------------------
(* Control FSM: one action per state *)

IDLE ==
  /\ state = "IDLE"
  /\ Tick(IF wb.cyc /\ wb.stb THEN "TEST_HIT" ELSE "IDLE", 0)

\* TEST_HIT with every miss sent to the eviction path
TEST_HIT_EvictAlways ==
  /\ state = "TEST_HIT"
  /\ Tick(IF hit THEN "IDLE" ELSE "EVICT_REQUEST", 0)

TEST_HIT ==
  /\ state = "TEST_HIT"
  /\ Tick(IF hit THEN "IDLE"
          ELSE IF tag_do.dirty THEN "EVICT_REQUEST" ELSE "REFILL_WRTAG", 0)

EVICT_REQUEST ==
  /\ state = "EVICT_REQUEST"
  /\ Tick(IF lasmi.req_ack THEN "EVICT_WAIT_DATA_ACK" ELSE "EVICT_REQUEST", 0)

\* EVICT_WAIT_DATA_ACK waiting for a second request-ack instead of data-ack
EVICT_WAIT_DATA_ACK_OnReqAck ==
  /\ state = "EVICT_WAIT_DATA_ACK"
  /\ Tick(IF lasmi.req_ack
            THEN delayed_enter("EVICT_DATAD", "EVICT_DATA", write_latency - 1)
            ELSE "EVICT_WAIT_DATA_ACK", 0)

EVICT_WAIT_DATA_ACK ==
  /\ state = "EVICT_WAIT_DATA_ACK"
  /\ Tick(IF lasmi.dat_ack
            THEN delayed_enter("EVICT_DATAD", "EVICT_DATA", write_latency - 1)
            ELSE "EVICT_WAIT_DATA_ACK", 0)

\* EVICT_DATAD with a chain of write_latency states
EVICT_DATAD_OneMore ==
  /\ state = "EVICT_DATAD"
  /\ DelayStep("EVICT_DATAD", "EVICT_DATA", write_latency)

EVICT_DATAD ==
  /\ state = "EVICT_DATAD"
  /\ DelayStep("EVICT_DATAD", "EVICT_DATA", write_latency - 1)

EVICT_DATA ==
  /\ state = "EVICT_DATA"
  /\ Tick("REFILL_WRTAG", 0)

REFILL_WRTAG ==
  /\ state = "REFILL_WRTAG"
  /\ Tick("REFILL_REQUEST", 0)

\* REFILL_REQUEST given up when the master has dropped its request
REFILL_REQUEST_Cancel ==
  /\ state = "REFILL_REQUEST"
  /\ Tick(IF ~(wb.cyc /\ wb.stb) THEN "IDLE"
          ELSE IF lasmi.req_ack THEN "REFILL_WAIT_DATA_ACK"
          ELSE "REFILL_REQUEST", 0)

\* REFILL_REQUEST left without waiting for request-ack
REFILL_REQUEST_NoWait ==
  /\ state = "REFILL_REQUEST"
  /\ Tick("REFILL_WAIT_DATA_ACK", 0)

REFILL_REQUEST ==
  /\ state = "REFILL_REQUEST"
  /\ Tick(IF lasmi.req_ack THEN "REFILL_WAIT_DATA_ACK" ELSE "REFILL_REQUEST", 0)

REFILL_WAIT_DATA_ACK ==
  /\ state = "REFILL_WAIT_DATA_ACK"
  /\ Tick(IF lasmi.dat_ack
            THEN delayed_enter("REFILL_DATAD", "REFILL_DATA", read_latency - 1)
            ELSE "REFILL_WAIT_DATA_ACK", 0)

REFILL_DATAD ==
  /\ state = "REFILL_DATAD"
  /\ DelayStep("REFILL_DATAD", "REFILL_DATA", read_latency - 1)

REFILL_DATA ==
  /\ state = "REFILL_DATA"
  /\ Tick("TEST_HIT", 0)

----------------------------------------------------------------------------
\* content of the back-end before the first request
BackInit == [a \in LasmiAdrs |-> [b \in 0 .. LineBytes - 1 |-> 100 + a * LineBytes + b]]

\* content of the data memory, which the design does not initialise
DataInit == [l \in Lines |-> [b \in 0 .. LineBytes - 1 |-> -(1 + l * LineBytes + b)]]

\* the flat memory before any write: the back-end's initial content, the
\* word of address a in line a >> offsetbits
RefInit ==
  [a \in ReqAdrs |->
     chooser(BackInit[(a \div Ratio) % (2^lasmim_aw)], adr_offset(a))]

InitHw ==
  /\ state = "IDLE"
  /\ dly = 0
  /\ data_mem = DataInit
  /\ tag_mem = [l \in Lines |-> [tag |-> 0, dirty |-> FALSE]]
  /\ port_adr_r = 0
  /\ adr_offset_r = 0
  /\ wb = NoReq
  /\ lasmi = [req_ack |-> FALSE, dat_ack |-> FALSE]
  /\ bmem = BackInit
  /\ bk_adr = 0
  /\ read_latency \in {1, MaxLat}
  /\ write_latency = MaxLat + 1 - read_latency
  /\ master \in {"bytes", "words", "drops"}
  /\ reqs = 0
  /\ trace = <<>>
  /\ miss_tag = 0
  /\ miss_dirty = FALSE
  /\ shadow = data_mem
  /\ last_ack = NoAck
  /\ since_ack = 0
  /\ written = {}
  /\ refilled = {}
  /\ cold = {}
  /\ ref = RefInit

\* the constructor's arguments and locals; pc "built" is the instance above
Built == [pc |-> "built", error |-> "",
          data_width |-> data_width, dw |-> lasmim_dw, aw |-> lasmim_aw,
          cachesize |-> cachesize, read_latency |-> 1, write_latency |-> 1,
          offsetbits |-> offsetbits, linebits |-> linebits, tagbits |-> tagbits]

Init == InitHw /\ ctor = Built

Next ==
  \/ IDLE
  \/ TEST_HIT
  \/ EVICT_REQUEST
  \/ EVICT_WAIT_DATA_ACK
  \/ EVICT_DATAD
  \/ EVICT_DATA
  \/ REFILL_WRTAG
  \/ REFILL_REQUEST
  \/ REFILL_WAIT_DATA_ACK
  \/ REFILL_DATAD
  \/ REFILL_DATA

InitBytes == Init /\ master = "bytes"

InitDrops == Init /\ master = "drops"

InitWords == Init /\ master = "words"

Spec == InitBytes /\ [][Next]_vars

SpecUnstable == InitDrops /\ [][Next]_vars

\* the back-end answers: a step into a cycle that carries request-ack or data-ack
BackEndAnswers == Next /\ (lasmi'.req_ack \/ lasmi'.dat_ack)

\* the clock runs, the master keeps to the protocol and the back-end answers
\* every strobe and every accepted request
SpecLive ==
  InitWords /\ [][Next]_vars /\ WF_vars(Next) /\ WF_vars(BackEndAnswers)

----------------------------------------------------------------------------
(* WB2LASMI.__init__: the checks made before any logic is built *)

CtorArgs ==
  [pc : {"widths"}, error : {""},
   data_width : {8 * k : k \in 1 .. MaxCfg}, dw : {8 * k : k \in 1 .. MaxCfg},
   aw : {lasmim_aw}, cachesize : 0 .. 2 * MaxCfg,
   read_latency : 0 .. 2, write_latency : 0 .. 2,
   offsetbits : {0}, linebits : {0}, tagbits : {0}]

Raise(e) == ctor' = [ctor EXCEPT !.pc = "raised", !.error = e]

\* CtorWidths without the test of line 19
CtorWidths_NoMultipleTest ==
  /\ ctor.pc = "widths"
  /\ IF ctor.dw < ctor.data_width
       THEN Raise("ValueError: LASMI data width must be >= dw")
       ELSE ctor' = [ctor EXCEPT !.pc = "offsetbits"]
  /\ UNCHANGED hw

\* if lasmim.dw < data_width: raise ...; if (lasmim.dw % data_width) != 0: raise ...
CtorWidths ==
  /\ ctor.pc = "widths"
  /\ IF ctor.dw < ctor.data_width
       THEN Raise("ValueError: LASMI data width must be >= dw")
     ELSE IF ctor.dw % ctor.data_width # 0
       THEN Raise("ValueError: LASMI data width must be a multiple of dw")
     ELSE ctor' = [ctor EXCEPT !.pc = "offsetbits"]
  /\ UNCHANGED hw

\* offsetbits = log2_int(lasmim.dw//data_width)
CtorOffsetbits ==
  /\ ctor.pc = "offsetbits"
  /\ LET l == log2_int(ctor.dw \div ctor.data_width) IN
       IF l < 0
         THEN Raise("ValueError: Not a power of 2")
         ELSE ctor' = [ctor EXCEPT !.pc = "linebits", !.offsetbits = l]
  /\ UNCHANGED hw

\* the line width taken as log2(cachesize), without the offset bits
CtorLinebits_NoOffset ==
  /\ ctor.pc = "linebits"
  /\ LET l == log2_int(ctor.cachesize) IN
       IF l < 0
         THEN Raise("ValueError: Not a power of 2")
         ELSE ctor' = [ctor EXCEPT !.pc = "memory",
                                   !.linebits = l,
                                   !.tagbits = (ctor.aw + ctor.offsetbits) - l]
  /\ UNCHANGED hw

\* addressbits = lasmim.aw + offsetbits
\* linebits = log2_int(cachesize) - offsetbits; tagbits = addressbits - linebits
CtorLinebits ==
  /\ ctor.pc = "linebits"
  /\ LET l == log2_int(ctor.cachesize) IN
       IF l < 0
         THEN Raise("ValueError: Not a power of 2")
         ELSE ctor' = [ctor EXCEPT !.pc = "memory",
                                   !.linebits = l - ctor.offsetbits,
                                   !.tagbits = (ctor.aw + ctor.offsetbits)
                                               - (l - ctor.offsetbits)]
  /\ UNCHANGED hw

\* data_mem = Memory(lasmim.dw, 2**linebits) and its port: a store of
\* 2**linebits lines exists only for linebits >= 0 (the address decomposer
\* and the memory are library code; a negative line width is an error).
CtorMemory ==
  /\ ctor.pc = "memory"
  /\ IF ctor.linebits < 0
       THEN Raise("Error: negative linebits")
       ELSE ctor' = [ctor EXCEPT !.pc = "fsm"]
  /\ UNCHANGED hw

\* assert(lasmim.write_latency >= 1 and lasmim.read_latency >= 1)
CtorLatency ==
  /\ ctor.pc = "fsm"
  /\ IF ctor.write_latency >= 1 /\ ctor.read_latency >= 1
       THEN ctor' = [ctor EXCEPT !.pc = "built"]
       ELSE Raise("AssertionError")
  /\ UNCHANGED hw

InitConstruct == InitHw /\ master = "bytes" /\ read_latency = 1 /\ ctor \in CtorArgs

NextConstruct ==
  \/ CtorWidths
  \/ CtorOffsetbits
  \/ CtorLinebits
  \/ CtorMemory
  \/ CtorLatency

SpecConstruct == InitConstruct /\ [][NextConstruct]_vars

----------------------------------------------------------------------------
TypeOK ==
  /\ state \in {"IDLE", "TEST_HIT", "EVICT_REQUEST", "EVICT_WAIT_DATA_ACK",
                "EVICT_DATAD", "EVICT_DATA", "REFILL_WRTAG", "REFILL_REQUEST",
                "REFILL_WAIT_DATA_ACK", "REFILL_DATAD", "REFILL_DATA"}
  /\ data_mem \in [Lines -> Line]
  /\ bmem \in [LasmiAdrs -> Line]
  /\ wb.dat_w \in [0 .. WordBytes - 1 -> Int]
  /\ tag_mem \in [Lines -> [tag : Tags, dirty : BOOLEAN]]
  /\ written \subseteq Lines /\ refilled \subseteq Lines /\ cold \subseteq Lines
  /\ ref \in [ReqAdrs -> Word]

----------------------------------------------------------------------------
(* Vocabulary of the claims *)

AllSel == [b \in 0 .. WordBytes - 1 |-> TRUE]

AllBytes == [b \in 0 .. LineBytes - 1 |-> TRUE]

Range(s) == {s[i] : i \in 1 .. Len(s)}

IsPrefix(s, t) == Len(s) <= Len(t) /\ \A i \in 1 .. Len(s) : s[i] = t[i]

Rep(name, n) == [i \in 1 .. n |-> name]

EvictStates == {"EVICT_REQUEST", "EVICT_WAIT_DATA_ACK", "EVICT_DATAD", "EVICT_DATA"}

\* the states from the miss detection to the write-data cycle of an eviction
EvictPath ==
  <<"TEST_HIT", "EVICT_REQUEST", "EVICT_WAIT_DATA_ACK">>
    \o Rep("EVICT_DATAD", write_latency - 1) \o <<"EVICT_DATA">>

\* the states of a refill, up to the re-test
RefillPath ==
  <<"REFILL_WRTAG", "REFILL_REQUEST", "REFILL_WAIT_DATA_ACK">>
    \o Rep("REFILL_DATAD", read_latency - 1) \o <<"REFILL_DATA", "TEST_HIT">>

\* the states of a whole miss sequence, from the miss to the re-test
MissPath == (IF miss_dirty THEN EvictPath ELSE <<"TEST_HIT">>) \o RefillPath

\* the request in progress has missed
Missed == Len(trace) >= 2

\* this cycle acknowledges a front-end request
Acked == wishbone_ack /\ wb.cyc /\ wb.stb

slot == adr_line(wb.adr)

----------------------------------------------------------------------------
(* C1: read after write *)

\* the request acknowledged last was a write of all bytes of the word at the
\* address that is read now
C1_ReadAfterWrite ==
  /\ Acked /\ ~wb.we
  /\ last_ack.valid /\ last_ack.we
  /\ last_ack.sel = AllSel
  /\ last_ack.adr = wb.adr

\* C1: when a read is acknowledged and the request acknowledged before it
\* was a write of V to the same address with every byte-select bit set, the
\* read data of the acknowledging cycle is V.
C1_ReadReturnsWritten ==
  C1_ReadAfterWrite => wishbone_dat_r = last_ack.dat_w

\* such a read whose write went through evict-then-refill
C1_Witness ==
  /\ C1_ReadAfterWrite
  /\ "EVICT_DATA" \in Range(last_ack.path)
  /\ wishbone_dat_r = last_ack.dat_w

----------------------------------------------------------------------------
(* C2: what an eviction sends to the back-end *)

\* C2: in EVICT_DATA the back-end write data is the whole current line of the
\* slot (the line last refilled with the acknowledged writes since applied)
\* with every byte enable set; the address presented when the write request
\* is accepted in EVICT_REQUEST is Cat(line, stored tag found at the miss), as
\* the lasmim.aw-bit address signal carries it.
C2_EvictedLine ==
  /\ state = "EVICT_DATA" =>
       /\ lasmim_dat_w = data_mem[slot]
       /\ lasmim_dat_w = shadow[slot]
       /\ lasmim_dat_we = AllBytes
  /\ (state = "EVICT_REQUEST" /\ lasmi.req_ack) =>
       /\ lasmim_stb /\ lasmim_we
       /\ lasmim_adr = Cat(slot, linebits, miss_tag) % (2^lasmim_aw)
       /\ miss_tag # adr_tag(wb.adr)
  /\ state \in {"EVICT_WAIT_DATA_ACK", "EVICT_DATAD", "EVICT_DATA"} =>
       bk_adr = Cat(slot, linebits, miss_tag) % (2^lasmim_aw)

\* an eviction of a line that took two front-end writes, sent to an address
\* that differs from the one the request's own tag would give
C2_Witness ==
  /\ state = "EVICT_DATA"
  /\ \E b \in 0 .. LineBytes - 1 : lasmim_dat_w[b] = ReqData(1)[b % WordBytes]
  /\ \E b \in 0 .. LineBytes - 1 : lasmim_dat_w[b] = ReqData(2)[b % WordBytes]
  /\ \E b \in 0 .. LineBytes - 1 : lasmim_dat_w[b] = BackInit[bk_adr][b]
  /\ bk_adr # Cat(slot, linebits, adr_tag(wb.adr)) % (2^lasmim_aw)

----------------------------------------------------------------------------
(* C3: a dirty miss evicts before the tag is rewritten *)

\* C3: after TEST_HIT finds a tag mismatch on a dirty slot the FSM goes
\* through EVICT_REQUEST, EVICT_WAIT_DATA_ACK, the delay states and
\* EVICT_DATA, in this order, before REFILL_WRTAG; from EVICT_REQUEST through
\* EVICT_DATA the tag entry of the slot still holds the old tag.
C3_EvictBeforeRetag ==
  /\ (Missed /\ miss_dirty) => IsPrefix(trace, EvictPath \o RefillPath)
  /\ state \in EvictStates =>
       /\ Missed /\ miss_dirty
       /\ tag_mem[slot] = [tag |-> miss_tag, dirty |-> TRUE]
       /\ tag_mem[slot].tag # adr_tag(wb.adr)
  /\ (state = "REFILL_REQUEST" /\ miss_dirty) =>
       /\ "EVICT_DATA" \in Range(trace)
       /\ tag_mem[slot].tag = adr_tag(wb.adr)

\* the cycle of EVICT_DATA after a delay chain of two states
C3_Witness ==
  /\ state = "EVICT_DATA"
  /\ trace = <<"TEST_HIT", "EVICT_REQUEST", "EVICT_WAIT_DATA_ACK",
               "EVICT_DATAD", "EVICT_DATAD", "EVICT_DATA">>
  /\ tag_mem[slot].tag = miss_tag

----------------------------------------------------------------------------
(* C4: a clean miss does not evict *)

\* C4: after TEST_HIT finds a tag mismatch on a clean slot the FSM goes to
\* REFILL_WRTAG directly, visits no EVICT state and strobes no back-end write
\* request before the request is acknowledged.
C4_CleanMissNoEvict ==
  (Missed /\ ~miss_dirty) =>
    /\ IsPrefix(trace, <<"TEST_HIT">> \o RefillPath)
    /\ Range(trace) \cap EvictStates = {}
    /\ state \notin EvictStates
    /\ ~(lasmim_stb /\ lasmim_we)

\* the acknowledging cycle of a request that missed a clean slot
C4_Witness ==
  /\ Acked
  /\ Missed /\ ~miss_dirty
  /\ trace = <<"TEST_HIT">> \o RefillPath

----------------------------------------------------------------------------
(* C5: byte lanes *)

\* what C5 asks of one clock cycle
C5_Step ==
  (Acked /\ wb.we) =>
    LET o  == adr_offset(wb.adr)
        L  == data_mem[slot]
        L2 == data_mem'[slot]
    IN  /\ \A l \in Lines \ {slot} : data_mem'[l] = data_mem[l]
        /\ \E p \in 0 .. Ratio - 1 :
             /\ \A b \in 0 .. WordBytes - 1 :
                  chooser(L2, o)[b] = L2[p * WordBytes + b]
             /\ \A b \in 0 .. LineBytes - 1 :
                  L2[b] = IF b \div WordBytes = p /\ wb.sel[b % WordBytes]
                            THEN wb.dat_w[b % WordBytes]
                            ELSE L[b]

\* C5: an acknowledged write at offset o with byte-selector s replaces, in
\* the line of the addressed slot, the selected bytes of one sub-word by the
\* bytes of the written word and leaves every other byte of the line, and
\* every other slot, as it was; that sub-word is the one a read at offset o
\* returns.
C5_ByteLanes == [][C5_Step]_vars

\* after a write of the low byte only: the line holds the written low byte
\* next to a high byte that came with the refill
C5_Witness ==
  /\ state = "IDLE"
  /\ last_ack.valid /\ last_ack.we
  /\ last_ack.sel[0] /\ ~last_ack.sel[1]
  /\ \E p \in 0 .. Ratio - 1 :
       /\ data_mem[adr_line(last_ack.adr)][p * WordBytes] = last_ack.dat_w[0]
       /\ \E a \in LasmiAdrs :
            data_mem[adr_line(last_ack.adr)][p * WordBytes + 1]
              = BackInit[a][p * WordBytes + 1]

----------------------------------------------------------------------------
(* C6: latency *)

DelayStates == {"EVICT_DATAD", "REFILL_DATAD"}

\* C6: EVICT_DATA is the write_latency-th cycle after the cycle in which
\* EVICT_WAIT_DATA_ACK observed data-ack, REFILL_DATA the read_latency-th
\* after REFILL_WAIT_DATA_ACK did (latency - 1 cycles lie in between), and in
\* the cycles in between no store is written, no back-end strobe or write
\* data is driven and the front-end is not acknowledged.
C6_Latency ==
  /\ state = "EVICT_DATA" => since_ack = write_latency
  /\ state = "REFILL_DATA" => since_ack = read_latency
  /\ state = "EVICT_DATAD" => since_ack \in 1 .. write_latency - 1
  /\ state = "REFILL_DATAD" => since_ack \in 1 .. read_latency - 1
  /\ state \in DelayStates =>
       /\ \A b \in 0 .. LineBytes - 1 : ~data_port_we[b] /\ ~lasmim_dat_we[b]
       /\ ~tag_port_we
       /\ ~lasmim_stb
       /\ ~wishbone_ack

\* EVICT_DATA with write latency 3, two delay cycles behind it
C6_Witness ==
  /\ state = "EVICT_DATA"
  /\ write_latency = 3
  /\ since_ack = 3
  /\ trace = <<"TEST_HIT", "EVICT_REQUEST", "EVICT_WAIT_DATA_ACK",
               "EVICT_DATAD", "EVICT_DATAD", "EVICT_DATA">>

----------------------------------------------------------------------------
(* C7: every request is acknowledged *)

\* C7: with a master that holds its request until ack and a back-end that
\* answers every strobe with request-ack and then data-ack, every front-end
\* request is eventually acknowledged, and from every state the FSM comes
\* back to IDLE.
C7_Liveness ==
  /\ (wb.cyc /\ wb.stb) ~> Acked
  /\ (state # "IDLE") ~> (state = "IDLE")

\* the acknowledging cycle of a request that went through evict-then-refill
C7_Witness ==
  /\ Acked
  /\ miss_dirty
  /\ trace = MissPath

----------------------------------------------------------------------------
(* C8: a miss sequence is not cancelled *)

\* what C8 asks of one clock cycle
C8_Step ==
  /\ Missed' => IsPrefix(trace', MissPath')
  /\ wishbone_ack' => (trace' = <<"TEST_HIT">> \/ trace' = MissPath')
  /\ (state' = "IDLE" /\ state # "IDLE") => (state = "TEST_HIT" /\ wishbone_ack)
  /\ (state' = "TEST_HIT" /\ state # "REFILL_DATA") =>
       (state = "IDLE" /\ wb.cyc /\ wb.stb)
  /\ state \notin {"IDLE", "TEST_HIT"} => reqs' = reqs

\* C8: after TEST_HIT has detected a miss the FSM runs through the eviction
\* (if the slot was dirty) and the refill to REFILL_DATA and back to TEST_HIT
\* whatever cyc and stb do; IDLE is entered only from an acknowledging
\* TEST_HIT, TEST_HIT only from IDLE with cyc and stb or from REFILL_DATA, and
\* no front-end ack is asserted between the miss and the re-test.
C8_NoCancel == [][C8_Step]_vars

\* the re-test after an evict-then-refill sequence, cyc and stb dropped
C8_Witness ==
  /\ state = "TEST_HIT"
  /\ miss_dirty
  /\ trace = MissPath
  /\ ~wb.cyc /\ ~wb.stb

----------------------------------------------------------------------------
(* C9: the back-end handshake *)

RequestStates == {"EVICT_REQUEST", "REFILL_REQUEST"}

WaitStates == {"EVICT_WAIT_DATA_ACK", "REFILL_WAIT_DATA_ACK"}

\* what C9 asks of one clock cycle
C9_Step ==
  /\ lasmim_stb <=> (state \in RequestStates)
  /\ lasmim_we <=> (state = "EVICT_REQUEST")
  /\ (lasmim_stb /\ ~lasmi.req_ack) =>
       (state' = state /\ lasmim_stb' /\ (lasmim_we' <=> lasmim_we))
  /\ (state \in RequestStates /\ state' # state) => lasmi.req_ack
  /\ (state \in WaitStates /\ state' # state) => lasmi.dat_ack
  /\ (state \in WaitStates /\ ~lasmi.dat_ack) => state' = state

\* C9: the back-end strobe is asserted exactly in EVICT_REQUEST and
\* REFILL_REQUEST and stays asserted, in the same state, in every cycle that
\* does not see request-ack; write-enable is asserted with the strobe in
\* EVICT_REQUEST and not in REFILL_REQUEST; a REQUEST state is left only on
\* request-ack and a WAIT_DATA_ACK state only on data-ack.
C9_Handshake == [][C9_Step]_vars

\* a cycle of EVICT_REQUEST in which the strobe is not yet answered
C9_Witness ==
  /\ state = "EVICT_REQUEST"
  /\ lasmim_stb /\ lasmim_we
  /\ ~lasmi.req_ack

----------------------------------------------------------------------------
(* C10: which configurations the constructor rejects *)

IsPow2(n) == \E k \in 0 .. n : 2^k = n

CtorEnded == ctor.pc \in {"built", "raised"}

\* the four conditions the claim lists
C10_Listed ==
  \/ ctor.dw < ctor.data_width
  \/ ctor.dw % ctor.data_width # 0
  \/ ~IsPow2(ctor.cachesize)
  \/ ctor.read_latency < 1
  \/ ctor.write_latency < 1

\* line_bits is not negative: the cache holds at least one back-end line
C10_LineFits == ctor.cachesize * ctor.data_width >= ctor.dw

\* C10 as stated: the constructor raises when one of the four listed
\* conditions holds, and builds the controller for every other configuration
\* whose line_bits is not negative.
C10_AsStated ==
  CtorEnded =>
    /\ C10_Listed => ctor.pc = "raised"
    /\ (~C10_Listed /\ C10_LineFits) => ctor.pc = "built"

\* C10 amended: the constructor raises when one of the four listed conditions
\* holds or the width ratio dw/data_width is not a power of two, and for
\* every other configuration whose line_bits is not negative none of its
\* checks raises.
C10_Rejects ==
  CtorEnded =>
    /\ (C10_Listed \/ ~IsPow2(ctor.dw \div ctor.data_width)) => ctor.pc = "raised"
    /\ (~C10_Listed /\ IsPow2(ctor.dw \div ctor.data_width) /\ C10_LineFits)
         => ctor.pc = "built"

\* a configuration with a width ratio of 3 and nothing else wrong is rejected
C10_Witness ==
  /\ ctor.pc = "raised"
  /\ ~C10_Listed
  /\ C10_LineFits
  /\ ctor.dw \div ctor.data_width = 3

----------------------------------------------------------------------------
(* C11: a cache smaller than one back-end line *)

----------------------------------------------------------------------------
(* C12: the address decomposition *)

\* split(v, ...): the field of v that is n bits wide and starts at bit lo
split(v, lo, n) == (v \div (2^lo)) % (2^n)

\* the front-end addresses a back-end of ctor.aw address bits holds
CtorAdrs == 0 .. (2^(ctor.aw + ctor.offsetbits)) - 1

\* the fields of a as the built controller splits it
CtorOffset(a) == split(a, 0, ctor.offsetbits)
CtorLine(a)   == split(a, ctor.offsetbits, ctor.linebits)
CtorTag(a)    == split(a, ctor.offsetbits + ctor.linebits, ctor.tagbits)

\* a valid configuration: built, and the cache is not larger than the
\* back-end memory, so that there is a tag field
C12_Valid == ctor.pc = "built" /\ ctor.tagbits >= 0

\* the fields are contiguous from bit 0 and recompose to the address
C12_RoundTrip ==
  \A a \in CtorAdrs :
    Cat(CtorOffset(a), ctor.offsetbits,
        Cat(CtorLine(a), ctor.linebits, CtorTag(a))) = a

\* the back-end address, Cat(line, tag) on lasmim_aw bits, is a >> offsetbits
C12_BackEndAdr ==
  \A a \in CtorAdrs :
    Cat(CtorLine(a), ctor.linebits, CtorTag(a)) % (2^ctor.aw)
      = a \div (2^ctor.offsetbits)

\* C12: for every valid configuration offset_bits + line_bits + tag_bits
\* equals back_end_address_width + offset_bits, the three fields are
\* contiguous from bit 0 (offset, line, tag), Cat(offset(a), line(a), tag(a))
\* is a for every address a of that width, and the back-end address
\* Cat(line(a), tag(a)) is a shifted right by offset_bits.
C12_AsStated ==
  C12_Valid =>
    /\ ctor.offsetbits + ctor.linebits + ctor.tagbits
         = ctor.aw + ctor.offsetbits
    /\ C12_RoundTrip
    /\ C12_BackEndAdr

\* what the built controller has instead: the three widths add up to
\* offsetbits more than the address width, the rest of the claim holds
C12_TagTooWide ==
  C12_Valid =>
    /\ ctor.offsetbits + ctor.linebits + ctor.tagbits
         = ctor.aw + 2 * ctor.offsetbits
    /\ C12_RoundTrip
    /\ C12_BackEndAdr

\* a built controller with a sub-word offset, whose tag is one bit wider
\* than the address leaves room for
C12_Witness ==
  /\ ctor.pc = "built"
  /\ ctor.offsetbits = 1
  /\ ctor.linebits = 1
  /\ ctor.offsetbits + ctor.linebits + ctor.tagbits = ctor.aw + 2

----------------------------------------------------------------------------
(* C13: what the dirty bit says about the data line *)

\* the back-end address of slot l under its stored tag, as lasmim.adr forms it
BackAdr(l) == Cat(l, linebits, tag_mem[l].tag) % (2^lasmim_aw)

\* C13 as stated: in every reachable state and for every slot, the dirty bit
\* is 1 only if the slot's data line differs from what the back-end stores at
\* (line index, stored tag).
C13_AsStated ==
  \A l \in Lines : tag_mem[l].dirty => data_mem[l] # bmem[BackAdr(l)]

\* C13 amended: with a master that holds its request, the dirty bit of a slot
\* is 1 only if a front-end write to that slot was acknowledged since the
\* slot's tag was last written by REFILL_WRTAG (or since reset); the line may
\* still equal the back-end's.
C13_DirtyOnlyWritten ==
  \A l \in Lines : tag_mem[l].dirty => l \in written

\* a refilled slot made dirty by a write that selected no byte: dirty, and
\* equal to the back-end line
C13_Witness ==
  /\ state = "IDLE"
  /\ \E l \in Lines :
       /\ tag_mem[l].dirty
       /\ l \in written
       /\ l \in refilled
       /\ data_mem[l] = bmem[BackAdr(l)]

----------------------------------------------------------------------------
(* C14: the first access to a slot that was never refilled *)

\* TEST_HIT examines the first request ever made to its slot, and the
\* request's tag field is 0
ColdTagZero ==
  /\ state = "TEST_HIT" /\ wb.cyc /\ wb.stb
  /\ slot \notin (cold \cup refilled)
  /\ adr_tag(wb.adr) = 0

\* that request hits: it is acknowledged in this cycle, the second of the
\* request (IDLE, then TEST_HIT), the back-end is not strobed, the FSM
\* returns to IDLE without a refill, and a read returns the data store's
\* initial content, not the back-end's
C14_Step ==
  ColdTagZero =>
    /\ hit /\ wishbone_ack
    /\ trace = <<"TEST_HIT">>
    /\ ~lasmim_stb
    /\ state' = "IDLE"
    /\ refilled' = refilled /\ bmem' = bmem
    /\ ~wb.we =>
         /\ wishbone_dat_r = chooser(DataInit[slot], adr_offset(wb.adr))
         /\ wishbone_dat_r # ref[wb.adr]
         /\ ref[wb.adr] = chooser(bmem[lasmim_adr], adr_offset(wb.adr))

\* C14: starting from the initial state (every tag and dirty bit 0, no slot
\* refilled), a request whose tag field is 0 takes TEST_HIT's hit branch on
\* its first access to a slot: it is acknowledged in the second cycle of the
\* request, no back-end request is strobed and no refill happens, so a read
\* returns the uninitialised data-store content rather than the back-end's.
C14_ColdHit == [][C14_Step]_vars

\* a read with tag 0 acknowledged on a slot nothing has touched before, after
\* another slot has already been refilled
C14_Witness ==
  /\ ColdTagZero
  /\ ~wb.we
  /\ wishbone_ack
  /\ refilled # {}

----------------------------------------------------------------------------
(* C15: the states one request goes through *)

\* how often state x was entered for the request in progress
Count(x) == Cardinality({i \in 1 .. Len(trace) : trace[i] = x})

\* TEST_HIT is evaluated at most twice; only the first evaluation can miss
\* and the second, which directly follows REFILL_DATA, hits; the tag is
\* rewritten and the line refilled at most once; ack is asserted in TEST_HIT
\* only, for one cycle, the next cycle is IDLE, and a request that missed is
\* acknowledged after exactly two TEST_HIT, one REFILL_WRTAG, one REFILL_DATA
C15_Step ==
  /\ Count("TEST_HIT") <= 2
  /\ Count("REFILL_WRTAG") <= 1
  /\ Count("REFILL_DATA") <= 1
  /\ (state = "TEST_HIT" /\ ~hit) => trace = <<"TEST_HIT">>
  /\ (state = "TEST_HIT" /\ Len(trace) >= 2) =>
       /\ trace[Len(trace) - 1] = "REFILL_DATA"
       /\ hit
  /\ (state = "REFILL_DATA") => state' = "TEST_HIT"
  /\ wishbone_ack =>
       /\ state = "TEST_HIT"
       /\ state' = "IDLE" /\ ~wishbone_ack'
       /\ Missed =>
            /\ Count("TEST_HIT") = 2
            /\ Count("REFILL_WRTAG") = 1
            /\ Count("REFILL_DATA") = 1

\* C15: with a stable front-end address the TEST_HIT that follows REFILL_DATA
\* finds stored tag = request tag, so a miss sequence passes through TEST_HIT
\* exactly twice (one miss, one hit), REFILL_WRTAG and REFILL_DATA are each
\* executed exactly once per request, and ack is asserted for exactly one
\* cycle per request, in TEST_HIT, followed by IDLE.
C15_RetestHits == [][C15_Step]_vars

\* the acknowledging re-test of a request that evicted and refilled
C15_Witness ==
  /\ wishbone_ack /\ wb.cyc /\ wb.stb
  /\ Count("TEST_HIT") = 2
  /\ Count("EVICT_DATA") = 1
  /\ Count("REFILL_DATA") = 1

----------------------------------------------------------------------------
(* C16: the refill: new tag, request address, captured line *)

\* the back-end line address of the request, on the lasmim_aw bits of
\* lasmim.adr
ReqLine == Cat(slot, linebits, adr_tag(wb.adr)) % (2^lasmim_aw)

\* REFILL_WRTAG stores (request tag, clean) in the current slot and the tag
\* port shows it in the next cycle; REFILL_REQUEST strobes a read of
\* Cat(line index, request tag); REFILL_DATA replaces every byte of the
\* slot's line by the back-end line of the request
C16_Step ==
  /\ state = "REFILL_WRTAG" =>
       /\ tag_mem'[slot] = [tag |-> adr_tag(wb.adr), dirty |-> FALSE]
       /\ \A l \in Lines \ {slot} : tag_mem'[l] = tag_mem[l]
       /\ state' = "REFILL_REQUEST"
       /\ tag_do' = [tag |-> adr_tag(wb.adr), dirty |-> FALSE]
  /\ state = "REFILL_REQUEST" =>
       /\ lasmim_stb /\ ~lasmim_we
       /\ lasmim_adr = ReqLine
       /\ lasmim_adr = (wb.adr \div Ratio) % (2^lasmim_aw)
  /\ state = "REFILL_DATA" =>
       /\ bk_adr = ReqLine
       /\ \A b \in 0 .. LineBytes - 1 : data_mem'[slot][b] = bmem[ReqLine][b]

\* C16: REFILL_WRTAG writes (tag = request tag, dirty = 0) into the tag store
\* entry of the current line and the write is visible in the next cycle, so
\* the back-end address presented with the read strobe in REFILL_REQUEST is
\* Cat(line index, request tag); the line captured in REFILL_DATA is the
\* back-end line of the requested address and overwrites all bytes of the
\* slot's data line.
C16_Refill == [][C16_Step]_vars

\* REFILL_DATA about to replace a line that holds written bytes by the
\* back-end line of a request whose tag differs from the one evicted
C16_Witness ==
  /\ state = "REFILL_DATA"
  /\ miss_dirty
  /\ miss_tag # adr_tag(wb.adr)
  /\ bk_adr = ReqLine
  /\ data_mem[slot] # bmem[ReqLine]

----------------------------------------------------------------------------
(* C17: which cycles write the two stores *)

WriteHit == state = "TEST_HIT" /\ hit /\ wb.we

\* a tag entry changes only in the current slot and only on a write hit,
\* which sets dirty and keeps the tag, or in REFILL_WRTAG; a data line
\* changes only in the current slot and only on a write hit or in
\* REFILL_DATA; in every other cycle both stores keep every slot
C17_Step ==
  /\ \A l \in Lines :
       tag_mem'[l] # tag_mem[l] =>
         /\ l = slot
         /\ WriteHit \/ state = "REFILL_WRTAG"
  /\ WriteHit => tag_mem'[slot] = [tag |-> tag_mem[slot].tag, dirty |-> TRUE]
  /\ \A l \in Lines :
       data_mem'[l] # data_mem[l] =>
         /\ l = slot
         /\ WriteHit \/ state = "REFILL_DATA"
  /\ ~(WriteHit \/ state \in {"REFILL_WRTAG", "REFILL_DATA"}) =>
       /\ tag_mem' = tag_mem
       /\ data_mem' = data_mem

\* C17: the tag store is written only in TEST_HIT on a write hit (dirty set
\* to 1, tag kept) and in REFILL_WRTAG, the data store only in TEST_HIT on a
\* write hit and in REFILL_DATA, each write touching only the slot of the
\* request's line field; in every other state and case both stores are
\* unchanged in every slot, so a read hit never clears or sets a dirty bit.
C17_StoreFrame == [][C17_Step]_vars

\* a read hit on a dirty slot while the other slot is dirty too
C17_Witness ==
  /\ state = "TEST_HIT" /\ hit /\ ~wb.we /\ wb.cyc /\ wb.stb
  /\ \A l \in Lines : tag_mem[l].dirty

----------------------------------------------------------------------------
(* C18: the cache seen from the front-end *)

\* the read data of an acknowledged read on a refilled slot, no slot having
\* acknowledged anything before its first refill
ReadAfterMisses ==
  /\ Acked /\ ~wb.we
  /\ slot \in refilled
  /\ cold = {}

\* C18: with a back-end that stores each evicted line at the address it was
\* requested with and returns it on refill, and every slot's first access a
\* miss, every acknowledged read returns, byte for byte, the most recent
\* acknowledged write to its address, or the back-end's initial content
\* where nothing was written, for any sequence of reads and writes to any
\* mix of addresses and tags.
C18_Transparent ==
  ReadAfterMisses => wishbone_dat_r = ref[wb.adr]

\* a read of address 4 (tag 1) that returns the word written to address 12
\* (tag 3): both tags select the same back-end line
C18_Witness ==
  /\ ReadAfterMisses
  /\ wb.adr = 4
  /\ wishbone_dat_r = ref[12]
  /\ ref[12] # ref[4]
  /\ ref[12] # RefInit[12]

----------------------------------------------------------------------------
(* C19: clean slots and the back-end *)

\* C19: whenever the FSM is in IDLE, every slot that has been refilled at
\* least once and whose dirty bit is 0 holds a data line equal to what the
\* back-end stores at (line index, stored tag): no acknowledged write is
\* present only in a slot marked clean.
C19_CleanCoherent ==
  state = "IDLE" =>
    \A l \in refilled :
      ~tag_mem[l].dirty => data_mem[l] = bmem[BackAdr(l)]

\* IDLE with a clean slot that was written, evicted and refilled again, so
\* that the back-end line it equals holds front-end data
C19_Witness ==
  /\ state = "IDLE"
  /\ \E l \in refilled :
       /\ ~tag_mem[l].dirty
       /\ data_mem[l] = bmem[BackAdr(l)]
       /\ bmem[BackAdr(l)] # BackInit[BackAdr(l)]

====
